---- MODULE Spec2Model ----
(***************************************************************************)
(* Model of datascience/predicates.py: the predicate factories of class    *)
(* `are`, the _combinable wrapper and its operators, the near-equality      *)
(* helper _equal_or_float_equal, and the module-level registration of the  *)
(* not_* names.                                                            *)
(*                                                                         *)
(* Floating-point numbers are modelled by their position on the grid of    *)
(* representable values: the integer i stands for the i-th representable   *)
(* value counted from 0.0, so i+1 and i-1 are its two ULP neighbours.      *)
(* 0.0 is position 0 and 1.0 is position UnitSpan.  Strings are sequences  *)
(* of one-character strings.                                               *)
(***************************************************************************)
EXTENDS Integers, Sequences, FiniteSets, TLC

VARIABLES
    pc,        \* line of predicates.py the module body executes next
    funcs,     \* function objects that exist, by identity (index)
    registry,  \* attributes of class `are`: name -> function object (0 = unbound)
    heap,      \* _combinable objects that exist, by identity (index)
    last       \* the most recent __call__: object, argument, outcome, calls made

vars == <<pc, funcs, registry, heap, last>>

---------------------------------------------------------------------------
(* Bounds of the model *)

NegSpan == 2      \* representable values below 0.0
UnitSpan == 3     \* position of 1.0: representable values in (0.0, 1.0]
AboveSpan == 2    \* representable values above 1.0
MaxHeap == 3      \* a caller starts an operation only with fewer objects alive

---------------------------------------------------------------------------
(* Values *)

Num(i) == [t |-> "num", n |-> i, s |-> <<>>]
Str(q) == [t |-> "str", n |-> 0, s |-> q]

ZERO == Num(0)
ONE == Num(UnitSpan)

Nums == {Num(i) : i \in (0 - NegSpan)..(UnitSpan + AboveSpan)}
Sizes == {Str(<<"S">>), Str(<<"M">>), Str(<<"L">>), Str(<<"X", "L">>)}
Strs == Sizes \cup {Str(<<"M", "X", "L">>)}
Values == Nums \cup Strs

B(b) == IF b THEN "True" ELSE "False"

\* Python's `a or b` / `a and b` / `not a` on outcomes; the right operand is
\* only evaluated (TLA+ IF is lazy) when the left one does not decide.
PyOr(l, r) == IF l = "False" THEN r ELSE l
PyAnd(l, r) == IF l = "True" THEN r ELSE l
PyNot(v) == IF v = "TypeError" THEN v ELSE B(v = "False")

Ord(c) == CASE c = "L" -> 76 [] c = "M" -> 77 [] c = "S" -> 83 [] c = "X" -> 88

StrLt(a, b) ==
    \E k \in 1..(Len(b)) :
        /\ k <= Len(a) + 1
        /\ \A j \in 1..(k - 1) : a[j] = b[j]
        /\ \/ k = Len(a) + 1
           \/ Ord(a[k]) < Ord(b[k])

PyEq(a, b) == B(a = b)

PyLt(a, b) ==
    IF a.t # b.t THEN "TypeError"
    ELSE IF a.t = "num" THEN B(a.n < b.n)
    ELSE B(StrLt(a.s, b.s))

PyLe(a, b) ==
    IF a.t # b.t THEN "TypeError"
    ELSE IF a.t = "num" THEN B(a.n <= b.n)
    ELSE B(a.s = b.s \/ StrLt(a.s, b.s))

PyGt(a, b) == PyLt(b, a)
PyGe(a, b) == PyLe(b, a)

IsSubstring(a, b) ==
    \E i \in 0..(Len(b) - Len(a)) : SubSeq(b, i + 1, i + Len(a)) = a

\* `a in b`
PyIn(a, b) ==
    IF a.t = "str" /\ b.t = "str" THEN B(IsSubstring(a.s, b.s)) ELSE "TypeError"

\* np.nextafter(x, t): the representable value next to x in the direction of t
nextafter(x, t) ==
    IF x.n < t.n THEN Num(x.n + 1)
    ELSE IF x.n > t.n THEN Num(x.n - 1)
    ELSE x

equal_or_float_equal(x, y) ==
    IF x.t = "num"
    THEN PyOr(PyEq(x, y), PyOr(PyEq(nextafter(x, ONE), y), PyEq(nextafter(x, ZERO), y)))
    ELSE PyEq(x, y)

---------------------------------------------------------------------------
(* The lambdas of the factories of class `are`: y, z are the factory's     *)
(* operands, x the value the predicate is applied to.                      *)

equal_to(y, x) == equal_or_float_equal(x, y)

above(y, x) == PyGt(x, y)

below(y, x) == PyLt(x, y)

above_or_equal_to(y, x) == PyOr(PyGe(x, y), equal_or_float_equal(x, y))

below_or_equal_to(y, x) == PyOr(PyLe(x, y), equal_or_float_equal(x, y))

strictly_between(y, z, x) == PyAnd(PyLt(y, x), PyLt(x, z))

between_closed(y, z, x) ==
    PyOr(PyAnd(PyLe(y, x), PyLe(x, z)), equal_or_float_equal(x, y))
between(y, z, x) ==
    PyOr(PyAnd(PyLe(y, x), PyLt(x, z)), equal_or_float_equal(x, y))

between_or_equal_to(y, z, x) ==
    PyOr(PyAnd(PyLe(y, x), PyLe(x, z)),
         PyOr(equal_or_float_equal(x, y), equal_or_float_equal(x, z)))

containing(substring, x) == PyIn(substring, x)

contained_in_swapped(superstring, x) == PyIn(superstring, x)
contained_in(superstring, x) == PyIn(x, superstring)

Prims == <<"equal_to", "above", "below", "above_or_equal_to", "below_or_equal_to",
           "strictly_between", "between", "between_or_equal_to",
           "containing", "contained_in">>

Arity(name) ==
    IF name \in {"strictly_between", "between", "between_or_equal_to"} THEN 2 ELSE 1

\* the body of the lambda a primitive factory closes over its operands
LeafBody(name, args, x) ==
    CASE name = "equal_to" -> equal_to(args[1], x)
      [] name = "above" -> above(args[1], x)
      [] name = "below" -> below(args[1], x)
      [] name = "above_or_equal_to" -> above_or_equal_to(args[1], x)
      [] name = "below_or_equal_to" -> below_or_equal_to(args[1], x)
      [] name = "strictly_between" -> strictly_between(args[1], args[2], x)
      [] name = "between" -> between(args[1], args[2], x)
      [] name = "between_or_equal_to" -> between_or_equal_to(args[1], args[2], x)
      [] name = "containing" -> containing(args[1], x)
      [] name = "contained_in" -> contained_in(args[1], x)

---------------------------------------------------------------------------
(* _combinable objects and their evaluation *)

Leaf(fid, args) == [kind |-> "leaf", fid |-> fid, args |-> args, self |-> 0, other |-> 0]
Node(kind, i, j) == [kind |-> kind, fid |-> 0, args |-> <<>>, self |-> i, other |-> j]

Ev(i, site, j) == [caller |-> i, site |-> site, callee |-> j]

RECURSIVE f(_, _, _, _)

\* lambda x: not self.f(x)
neg_f_uncalled(fs, h, i, x) == [val |-> "False", trace |-> <<>>]
neg_f(fs, h, i, x) ==
    LET r == f(fs, h, h[i].self, x)
    IN  [val |-> PyNot(r.val), trace |-> <<Ev(i, "self", h[i].self)>> \o r.trace]

\* lambda x: self.f(x) and other.f(x)
and_f_eager(fs, h, i, x) ==
    LET l == f(fs, h, h[i].self, x)
        r == f(fs, h, h[i].other, x)
    IN  [val |-> IF "TypeError" \in {l.val, r.val} THEN "TypeError"
                 ELSE B(l.val = "True" /\ r.val = "True"),
         trace |-> <<Ev(i, "self", h[i].self)>> \o l.trace
                   \o <<Ev(i, "other", h[i].other)>> \o r.trace]
and_f(fs, h, i, x) ==
    LET l == f(fs, h, h[i].self, x)
        r == f(fs, h, h[i].other, x)
        el == <<Ev(i, "self", h[i].self)>> \o l.trace
    IN  IF l.val # "True" THEN [val |-> l.val, trace |-> el]
        ELSE [val |-> r.val,
              trace |-> el \o <<Ev(i, "other", h[i].other)>> \o r.trace]

\* lambda x: self.f(x) or other.f(x)
or_f_eager(fs, h, i, x) ==
    LET l == f(fs, h, h[i].self, x)
        r == f(fs, h, h[i].other, x)
    IN  [val |-> IF "TypeError" \in {l.val, r.val} THEN "TypeError"
                 ELSE B(l.val = "True" \/ r.val = "True"),
         trace |-> <<Ev(i, "self", h[i].self)>> \o l.trace
                   \o <<Ev(i, "other", h[i].other)>> \o r.trace]
or_f(fs, h, i, x) ==
    LET l == f(fs, h, h[i].self, x)
        r == f(fs, h, h[i].other, x)
        el == <<Ev(i, "self", h[i].self)>> \o l.trace
    IN  IF l.val # "False" THEN [val |-> l.val, trace |-> el]
        ELSE [val |-> r.val,
              trace |-> el \o <<Ev(i, "other", h[i].other)>> \o r.trace]

\* self.f(x) of the object h[i]: outcome and the calls of wrapped functions made
f(fs, h, i, x) ==
    CASE h[i].kind = "leaf" ->
            [val |-> LeafBody(fs[h[i].fid].name, h[i].args, x), trace |-> <<>>]
      [] h[i].kind = "neg" -> neg_f(fs, h, i, x)
      [] h[i].kind = "and" -> and_f(fs, h, i, x)
      [] h[i].kind = "or" -> or_f(fs, h, i, x)

\* _combinable.__call__
call(fs, h, i, x) ==
    LET r == f(fs, h, i, x)
    IN  [obj |-> i, x |-> x, val |-> r.val, trace |-> r.trace]

\* the objects the operators allocate, given the objects h that exist
and_objs(h, i, j) == <<Node("and", i, j)>>
or_objs(h, i, j) == <<Node("or", i, j)>>
neg_objs(h, i) == <<Node("neg", i, 0)>>

\* (self & -other) | (-self & other)
xor_objs_slip(h, i, j) ==
    LET k == Len(h)
    IN  <<Node("neg", j, 0), Node("and", i, k + 1),
          Node("neg", i, 0), Node("and", k + 3, i),
          Node("or", k + 2, k + 4)>>
xor_objs(h, i, j) ==
    LET k == Len(h)
    IN  <<Node("neg", j, 0), Node("and", i, k + 1),
          Node("neg", i, 0), Node("and", k + 3, j),
          Node("or", k + 2, k + 4)>>

---------------------------------------------------------------------------
(* Module initialisation: the class body, then lines 190-199 *)

FirstStmt == 190
LastStmt == 199
Done == LastStmt + 1

Names == {Prims[k] : k \in 1..Len(Prims)} \cup
         {"not_equal_to", "not_above", "not_below", "not_below_or_equal_to",
          "not_above_or_equal_to", "not_strictly_between", "not_between",
          "not_between_or_equal_to", "not_containing", "not_contained_in"}

S(name, via, of) == [name |-> name, via |-> via, of |-> of]

Stmt_all_negated(l) ==
    CASE l = 190 -> S("not_equal_to", "_not", "equal_to")
      [] l = 191 -> S("not_above", "_not", "above")
      [] l = 192 -> S("not_below", "_not", "below")
      [] l = 193 -> S("not_below_or_equal_to", "_not", "below_or_equal_to")
      [] l = 194 -> S("not_above_or_equal_to", "_not", "above_or_equal_to")
      [] l = 195 -> S("not_strictly_between", "_not", "strictly_between")
      [] l = 196 -> S("not_between", "_not", "between")
      [] l = 197 -> S("not_between_or_equal_to", "_not", "between_or_equal_to")
      [] l = 198 -> S("not_containing", "_not", "containing")
      [] l = 199 -> S("not_contained_in", "_not", "contained_in")
Stmt(l) ==
    CASE l = 190 -> S("not_equal_to", "_not", "equal_to")
      [] l = 191 -> S("not_above", "alias", "below_or_equal_to")
      [] l = 192 -> S("not_below", "alias", "above_or_equal_to")
      [] l = 193 -> S("not_below_or_equal_to", "alias", "above")
      [] l = 194 -> S("not_above_or_equal_to", "alias", "below")
      [] l = 195 -> S("not_strictly_between", "_not", "strictly_between")
      [] l = 196 -> S("not_between", "_not", "between")
      [] l = 197 -> S("not_between_or_equal_to", "_not", "between_or_equal_to")
      [] l = 198 -> S("not_containing", "_not", "containing")
      [] l = 199 -> S("not_contained_in", "_not", "contained_in")

PrimFunc(name) == [kind |-> "prim", name |-> name, f |-> 0]
\* _not(f): a new function object, lambda *args: -f(*args)
NotFunc(fid) == [kind |-> "not", name |-> "", f |-> fid]

ClassFuncs == [k \in 1..Len(Prims) |-> PrimFunc(Prims[k])]
ClassRegistry ==
    [n \in Names |->
        IF \E k \in 1..Len(Prims) : Prims[k] = n
        THEN CHOOSE k \in 1..Len(Prims) : Prims[k] = n
        ELSE 0]

NoCall == [obj |-> 0, x |-> ZERO, val |-> "", trace |-> <<>>]

Init ==
    /\ pc = FirstStmt
    /\ funcs = ClassFuncs
    /\ registry = ClassRegistry
    /\ heap = <<>>
    /\ last = NoCall

\* one statement `are.<name> = ...` of lines 190-199
Register ==
    /\ pc < Done
    /\ LET s == Stmt(pc)
       IN  IF s.via = "_not"
           THEN /\ funcs' = Append(funcs, NotFunc(registry[s.of]))
                /\ registry' = [registry EXCEPT ![s.name] = Len(funcs) + 1]
           ELSE /\ funcs' = funcs
                /\ registry' = [registry EXCEPT ![s.name] = registry[s.of]]
    /\ pc' = pc + 1
    /\ UNCHANGED <<heap, last>>

\* the state once the module body has run to its end
RECURSIVE Imported(_, _, _)
Imported(l, fs, reg) ==
    IF l >= Done THEN [funcs |-> fs, registry |-> reg]
    ELSE LET s == Stmt(l)
         IN  IF s.via = "_not"
             THEN Imported(l + 1, Append(fs, NotFunc(reg[s.of])),
                           [reg EXCEPT ![s.name] = Len(fs) + 1])
             ELSE Imported(l + 1, fs, [reg EXCEPT ![s.name] = reg[s.of]])

---------------------------------------------------------------------------
(* Operations of a caller *)

\* the objects a call fs[fid](*args) allocates; the last one is returned
factory_objs(fs, h, fid, args) ==
    IF fs[fid].kind = "prim"
    THEN <<Leaf(fid, args)>>
    ELSE <<Leaf(fs[fid].f, args)>> \o neg_objs(h, Len(h) + 1)

\* are.<name>(*args)
Construct(name, args) ==
    /\ pc = Done
    /\ Len(heap) < MaxHeap
    /\ registry[name] # 0
    /\ heap' = heap \o factory_objs(funcs, heap, registry[name], args)
    /\ UNCHANGED <<pc, funcs, registry, last>>

\* -p
Neg(i) ==
    /\ pc = Done
    /\ Len(heap) < MaxHeap
    /\ heap' = heap \o neg_objs(heap, i)
    /\ UNCHANGED <<pc, funcs, registry, last>>

\* p & q
And(i, j) ==
    /\ pc = Done
    /\ Len(heap) < MaxHeap
    /\ heap' = heap \o and_objs(heap, i, j)
    /\ UNCHANGED <<pc, funcs, registry, last>>

\* p | q
Or(i, j) ==
    /\ pc = Done
    /\ Len(heap) < MaxHeap
    /\ heap' = heap \o or_objs(heap, i, j)
    /\ UNCHANGED <<pc, funcs, registry, last>>

\* p ^ q
Xor(i, j) ==
    /\ pc = Done
    /\ Len(heap) < MaxHeap
    /\ heap' = heap \o xor_objs(heap, i, j)
    /\ UNCHANGED <<pc, funcs, registry, last>>

\* p(x).  A call changes no object, so a behaviour ends with the call.
Invoke(i, x) ==
    /\ pc = Done
    /\ last = NoCall
    /\ last' = call(funcs, heap, i, x)
    /\ UNCHANGED <<pc, funcs, registry, heap>>

ArgsOf(name, vals) ==
    IF Arity(name) = 2 THEN {<<y, z>> : y \in vals, z \in vals}
    ELSE {<<y>> : y \in vals}

PrimOf(name) ==
    IF \E k \in 1..Len(Prims) : Prims[k] = name THEN name
    ELSE CHOOSE p \in {Prims[k] : k \in 1..Len(Prims)} :
            \E l \in FirstStmt..(Done - 1) : Stmt(l).name = name /\ Stmt(l).of = p

\* Spec: the module is imported, then a caller obtains one predicate from a
\* factory, may negate it, and applies it to values.
Next ==
    \/ Register
    \/ /\ pc = Done /\ heap = <<>>
       /\ \E name \in Names : \E args \in ArgsOf(PrimOf(name), Values) :
             Construct(name, args)
    \/ \E i \in 1..Len(heap) : Neg(i)
    \/ /\ last = NoCall
       /\ \E i \in 1..Len(heap) : \E x \in Values : Invoke(i, x)

Spec == Init /\ [][Next]_vars

\* SpecAlg: the module has been imported; a caller builds combinations of a
\* few predicates with & | - ^ and applies them.
AlgCalls == {<<"above", <<ZERO>>>>, <<"below", <<ONE>>>>, <<"containing", <<Str(<<"L">>)>>>>}
AlgInputs == {ZERO, ONE, Str(<<"L">>)}

InitAlg ==
    /\ pc = Done
    /\ funcs = Imported(FirstStmt, ClassFuncs, ClassRegistry).funcs
    /\ registry = Imported(FirstStmt, ClassFuncs, ClassRegistry).registry
    /\ heap = <<>>
    /\ last = NoCall

NextAlg ==
    \/ \E c \in AlgCalls : Construct(c[1], c[2])
    \/ \E i \in 1..Len(heap) : Neg(i)
    \/ \E i, j \in 1..Len(heap) : And(i, j)
    \/ \E i, j \in 1..Len(heap) : Or(i, j)
    \/ \E i, j \in 1..Len(heap) : Xor(i, j)
    \/ /\ last = NoCall
       /\ \E i \in 1..Len(heap) : \E x \in AlgInputs : Invoke(i, x)

SpecAlg == InitAlg /\ [][NextAlg]_vars

---------------------------------------------------------------------------
(* What the claims speak about *)

Called == last.obj # 0
Obj == heap[last.obj]
Bool(v) == v \in {"True", "False"}
IsTrue == last.val = "True"

\* the outcome of applying object i to the argument of the last call
Sub(i) == f(funcs, heap, i, last.x).val

\* the last call applied the predicate returned by are.<name>(...), a
\* primitive factory or an alias of one
IsCallOf(name) ==
    /\ Called
    /\ Obj.kind = "leaf"
    /\ Obj.fid = registry[name]

\* the last call applied the predicate returned by are.<name>(...), a
\* factory made by _not
IsNotCallOf(name) ==
    /\ Called
    /\ last.obj >= 2
    /\ funcs[registry[name]].kind = "not"
    /\ SubSeq(heap, last.obj - 1, last.obj) =
          factory_objs(funcs, SubSeq(heap, 1, last.obj - 2), registry[name],
                       heap[last.obj - 1].args)

Y == Obj.args[1]
Z == Obj.args[2]
X == last.x
AllNum == X.t = "num" /\ \A k \in 1..Len(Obj.args) : Obj.args[k].t = "num"

\* object i is the result of p ^ q
XorOf(i, p, q) ==
    /\ i >= 6
    /\ p \in 1..(i - 5)
    /\ q \in 1..(i - 5)
    /\ SubSeq(heap, i - 4, i) = xor_objs(SubSeq(heap, 1, i - 5), p, q)
IsXor(i) == \E p, q \in 1..(i - 5) : XorOf(i, p, q)
XorP(i) == heap[i - 3].self
XorQ(i) == heap[i - 1].other

---------------------------------------------------------------------------
(* C1: equal_to(y)(x) on numbers is true exactly when x == y or y is the   *)
(* representable value immediately above or immediately below x, wherever  *)
(* x lies on the number line.                                              *)
C1_EqualToWithinOneUlp ==
    IsCallOf("equal_to") /\ AllNum =>
        (IsTrue <=> (X.n = Y.n \/ X.n + 1 = Y.n \/ X.n - 1 = Y.n))

(* C2: above_or_equal_to(y)(x) is true iff x >= y or x is one ULP below y; *)
(* below_or_equal_to(y)(x) is true iff x <= y or x is one ULP above y.     *)
C2_OrEqualForgivesOneUlp ==
    /\ IsCallOf("above_or_equal_to") /\ AllNum =>
          (IsTrue <=> (X.n >= Y.n \/ X.n = Y.n - 1))
    /\ IsCallOf("below_or_equal_to") /\ AllNum =>
          (IsTrue <=> (X.n <= Y.n \/ X.n = Y.n + 1))

(* C3 as stated: over the column ['S','M','L','XL'], containing('L')       *)
(* selects exactly {L, XL}, contained_in('MXL') exactly {M, XL} and        *)
(* not_contained_in('MXL') exactly {S, L}.                                 *)
sS == Str(<<"S">>)
sM == Str(<<"M">>)
sL == Str(<<"L">>)
sXL == Str(<<"X", "L">>)
sMXL == Str(<<"M", "X", "L">>)

C3_SelectsAsStated ==
    /\ IsCallOf("containing") /\ Y = sL /\ X \in Sizes =>
          (IsTrue <=> X \in {sL, sXL})
    /\ IsCallOf("contained_in") /\ Y = sMXL /\ X \in Sizes =>
          (IsTrue <=> X \in {sM, sXL})
    /\ IsNotCallOf("not_contained_in") /\ heap[last.obj - 1].args = <<sMXL>>
          /\ X \in Sizes =>
          (IsTrue <=> X \in {sS, sL})

(* C3 amended: containing('L') selects exactly {L, XL}, contained_in('MXL') *)
(* selects exactly {M, L, XL} ('L' is a substring of 'MXL' too) and         *)
(* not_contained_in('MXL') selects exactly {S}.                             *)
C3_SelectsSubstrings ==
    /\ IsCallOf("containing") /\ Y = sL /\ X \in Sizes =>
          (IsTrue <=> X \in {sL, sXL})
    /\ IsCallOf("contained_in") /\ Y = sMXL /\ X \in Sizes =>
          (IsTrue <=> X \in {sM, sL, sXL})
    /\ IsNotCallOf("not_contained_in") /\ heap[last.obj - 1].args = <<sMXL>>
          /\ X \in Sizes =>
          (last.val \in {"True", "False"} /\ (IsTrue <=> X = sS))

C3_Witness ==
    IsCallOf("contained_in") /\ Y = sMXL /\ X = sL /\ IsTrue

(* C4: for combinable p, q whose outcomes on x are booleans,               *)
(* (p & q)(x) = (p(x) and q(x)), (p | q)(x) = (p(x) or q(x)),              *)
(* (-p)(x) = not p(x) and (p ^ q)(x) = (p(x) != q(x)), p and q being any   *)
(* combinations themselves.                                                *)
C4_CombinatorsAreBoolean ==
    Called =>
        /\ Obj.kind = "and" /\ Bool(Sub(Obj.self)) /\ Bool(Sub(Obj.other)) =>
              last.val = B(Sub(Obj.self) = "True" /\ Sub(Obj.other) = "True")
        /\ Obj.kind = "or" /\ Bool(Sub(Obj.self)) /\ Bool(Sub(Obj.other)) =>
              last.val = B(Sub(Obj.self) = "True" \/ Sub(Obj.other) = "True")
        /\ Obj.kind = "neg" /\ Bool(Sub(Obj.self)) =>
              last.val = B(Sub(Obj.self) # "True")
        /\ IsXor(last.obj) /\ Bool(Sub(XorP(last.obj))) /\ Bool(Sub(XorQ(last.obj))) =>
              last.val = B(Sub(XorP(last.obj)) # Sub(XorQ(last.obj)))

\* p ^ q with p itself a combination, true because exactly q holds
C4_Witness ==
    /\ Called
    /\ IsXor(last.obj)
    /\ heap[XorP(last.obj)].kind # "leaf"
    /\ Sub(XorP(last.obj)) = "False"
    /\ Sub(XorQ(last.obj)) = "True"
    /\ IsTrue

(* C5: (p & q)(x) does not evaluate q when p(x) is false and returns       *)
(* false, (p | q)(x) does not evaluate q when p(x) is true and returns     *)
(* true, also when q would raise.                                          *)
OtherEvaluated ==
    \E k \in 1..Len(last.trace) :
        last.trace[k].caller = last.obj /\ last.trace[k].site = "other"

C5_ShortCircuit ==
    Called =>
        /\ Obj.kind = "and" /\ Sub(Obj.self) = "False" =>
              last.val = "False" /\ ~OtherEvaluated
        /\ Obj.kind = "or" /\ Sub(Obj.self) = "True" =>
              last.val = "True" /\ ~OtherEvaluated

C5_Witness ==
    /\ Called
    /\ Obj.kind = "and"
    /\ Sub(Obj.self) = "False"
    /\ Sub(Obj.other) = "TypeError"
    /\ last.val = "False"

(* C6: once the module body has run, not_above is the same function object *)
(* as below_or_equal_to, not_below as above_or_equal_to,                   *)
(* not_below_or_equal_to as above and not_above_or_equal_to as below; the  *)
(* six other not_* names are bound to function objects of their own, made  *)
(* by _not from their primitive.                                           *)
Aliases == {<<"not_above", "below_or_equal_to">>, <<"not_below", "above_or_equal_to">>,
            <<"not_below_or_equal_to", "above">>, <<"not_above_or_equal_to", "below">>}
Negations == {<<"not_equal_to", "equal_to">>, <<"not_strictly_between", "strictly_between">>,
              <<"not_between", "between">>,
              <<"not_between_or_equal_to", "between_or_equal_to">>,
              <<"not_containing", "containing">>, <<"not_contained_in", "contained_in">>}

C6_RegistryBindings ==
    pc = Done =>
        /\ \A a \in Aliases : registry[a[1]] # 0 /\ registry[a[1]] = registry[a[2]]
        /\ \A n \in Negations :
              /\ registry[n[1]] # 0
              /\ funcs[registry[n[1]]].kind = "not"
              /\ funcs[registry[n[1]]].f = registry[n[2]]
              /\ \A m \in Names \ {n[1]} : registry[m] # registry[n[1]]
              /\ factory_objs(funcs, <<>>, registry[n[1]], <<ZERO>>) =
                    <<Leaf(registry[n[2]], <<ZERO>>), Node("neg", 1, 0)>>

C6_Witness ==
    /\ pc = Done
    /\ IsCallOf("not_above")
    /\ IsCallOf("below_or_equal_to")

(* C7: on numbers each aliased negated predicate is exactly the negation   *)
(* of its positive counterpart, also when x is within one ULP of y:        *)
(* not_above(y)(x) = not above(y)(x), and so on for the four pairs.        *)
Duals == {<<"not_above", "above">>, <<"not_below", "below">>,
          <<"not_above_or_equal_to", "above_or_equal_to">>,
          <<"not_below_or_equal_to", "below_or_equal_to">>}

C7_AliasIsNegation ==
    \A d \in Duals :
        IsCallOf(d[1]) /\ AllNum =>
            last.val = PyNot(LeafBody(d[2], Obj.args, X))

(* C8 as stated: for numbers y, z with z not within one ULP of y,          *)
(* between(y, z)(x) is true at x == y and false at x == z and every x >= z.*)
C8_BetweenBounds ==
    IsCallOf("between") /\ AllNum /\ (Z.n > Y.n + 1 \/ Z.n < Y.n - 1) =>
        /\ X = Y => IsTrue
        /\ X.n >= Z.n => last.val = "False"

(* C8 amended: the same for y < z (z more than one ULP above y).           *)
C8_BetweenBoundsOrdered ==
    IsCallOf("between") /\ AllNum /\ Z.n > Y.n + 1 =>
        /\ X = Y => IsTrue
        /\ X.n >= Z.n => last.val = "False"

C8_Witness ==
    IsCallOf("between") /\ AllNum /\ Z.n > Y.n + 1 /\ X = Z /\ last.val = "False"

(* C9: (-(-p))(x) equals p(x) for every predicate p and input x; so a      *)
(* not_* factory's predicate negated again agrees with the primitive.      *)
C9_DoubleNegation ==
    Called /\ Obj.kind = "neg" /\ heap[Obj.self].kind = "neg" =>
        last.val = Sub(heap[Obj.self].self)

\* (-not_between(y, z))(x) where between(y, z)(x) is true
C9_Witness ==
    /\ Called
    /\ last.obj = 3
    /\ heap[3] = Node("neg", 2, 0)
    /\ SubSeq(heap, 1, 2) =
          factory_objs(funcs, <<>>, registry["not_between"], heap[1].args)
    /\ heap[1].fid = registry["between"]
    /\ IsTrue

(* C10: one call of (p ^ q)(x), p(x) and q(x) being booleans, evaluates    *)
(* q's wrapped function exactly once and p's once or twice, p first; p is  *)
(* evaluated once exactly when p(x) is true and q(x) is false.             *)
PEvals(i) ==
    {k \in 1..Len(last.trace) :
        \/ last.trace[k] = Ev(i - 3, "self", XorP(i))
        \/ last.trace[k] = Ev(i - 2, "self", XorP(i))}
QEvals(i) ==
    {k \in 1..Len(last.trace) :
        \/ last.trace[k] = Ev(i - 4, "self", XorQ(i))
        \/ last.trace[k] = Ev(i - 1, "other", XorQ(i))}

====
